---- MODULE Spec2Model ----
(***************************************************************************)
(* Model of the three manifold pipelines under examples/pipelines/providers *)
(* (cloudflare_ai_pipeline.py, grok_manifold_pipeline.py,                  *)
(* perplexity_manifold_pipeline.py).  One Pipeline object is modelled at a *)
(* time; `adapter` says which of the three classes it is an instance of.   *)
(*                                                                         *)
(* Strings are sequences of tokens (a token is a run of characters that    *)
(* the code never looks inside, "." and "@cf/" are tokens of their own).   *)
(* The empty string is <<>>.  A dictionary key that is absent is the       *)
(* string Missing.                                                         *)
(***************************************************************************)
EXTENDS Integers, Sequences, FiniteSets, TLC

VARIABLES
    adapter,    \* which Pipeline class this object is an instance of
    env,        \* the process environment read by __init__ (os.getenv)
    valves,     \* self.valves: [key, account]
    headers,    \* self.headers["Authorization"] key (Cloudflare only)
    pipelines,  \* self.pipelines: the cached catalog, a sequence of [id, name]
    vendor,     \* what the vendor currently answers to the catalog GET
    last        \* the most recent event: the call made, what it sent, its result

vars == <<adapter, env, valves, headers, pipelines, vendor, last>>

Adapters == {"cloudflare", "grok", "perplexity"}

-----------------------------------------------------------------------------
(* Bounds of the enumerated inputs.                                         *)

\* longest vendor model list enumerated for the catalog GET
MaxEntries == 2
\* most "." separators inside a vendor model name given to pipe
MaxNameDots == 1
\* longest messages sequence enumerated for pipe
MaxMsgs == 2
\* longest citations array enumerated in a Perplexity response
MaxCitations == 2
\* most choices enumerated in a chat completion response
MaxChoices == 2

-----------------------------------------------------------------------------
(* Strings.                                                                 *)

Missing == <<"<missing>">>
Unset == <<"<unset>">>

Range(s) == {s[i] : i \in 1..Len(s)}

RECURSIVE SeqsUpTo(_, _)
SeqsUpTo(S, n) ==
    IF n = 0 THEN {<<>>}
    ELSE LET shorter == SeqsUpTo(S, n - 1)
         IN  shorter \cup {Append(s, x) : s \in {t \in shorter : Len(t) = n - 1}, x \in S}

\* str.lower() on one token
LowerTok(t) ==
    CASE t = "Grok" -> "grok"
      [] t = "Chat" -> "chat"
      [] t = "Chat_Completions" -> "chat_completions"
      [] t = "Text-Generation" -> "text-generation"
      [] t = "Llama" -> "llama"
      [] t = "Meta" -> "meta"
      [] t = "Sonar" -> "sonar"
      [] OTHER -> t

\* str.lower()
Lower(s) == [i \in 1..Len(s) |-> LowerTok(s[i])]

\* `sub in s` for a one-token needle
Contains(s, tok) == tok \in Range(s)

\* `"." in s`
HasDot(s) == Contains(s, ".")

\* code point of the first character of a token: the order Python compares by
Ord(t) ==
    CASE t = " " -> 32
      [] t = " (" -> 32
      [] t = "(" -> 40
      [] t = ")" -> 41
      [] t = "-1" -> 45
      [] t = "-2" -> 45
      [] t = "-pro" -> 45
      [] t = "." -> 46
      [] t = "128" -> 49
      [] t = "500" -> 53
      [] t = "@cf/" -> 64
      [] t = "Grok" -> 71
      [] t = "Llama" -> 76
      [] t = "Meta" -> 77
      [] t = "Sonar" -> 83
      [] t = "grok" -> 103
      [] t = "k)" -> 107
      [] t = "llama" -> 108
      [] t = "m" -> 109
      [] t = "r1" -> 114
      [] t = "sonar" -> 115
      [] t = "v" -> 118
      [] OTHER -> 120

\* second character where two tokens of a sort key share the first
Ord2(t) ==
    CASE t = "-1" -> 49
      [] t = "-2" -> 50
      [] t = "-pro" -> 112
      [] t = " " -> 0
      [] t = " (" -> 40
      [] OTHER -> 0

TokLess(a, b) == Ord(a) < Ord(b) \/ (Ord(a) = Ord(b) /\ Ord2(a) < Ord2(b))

\* s < t in Python's lexicographic string order
RECURSIVE StrLess(_, _)
StrLess(s, t) ==
    IF t = <<>> THEN FALSE
    ELSE IF s = <<>> THEN TRUE
    ELSE IF TokLess(Head(s), Head(t)) THEN TRUE
    ELSE IF TokLess(Head(t), Head(s)) THEN FALSE
    ELSE StrLess(Tail(s), Tail(t))

\* str(n) for the numbers the code formats
Str(n) ==
    CASE n = 128 -> "128"
      [] n = 200 -> "200"
      [] n = 400 -> "400"
      [] n = 401 -> "401"
      [] n = 404 -> "404"
      [] n = 500 -> "500"
      [] OTHER -> "n"

\* index of the first "." of s (0 when there is none)
RECURSIVE FirstDotFrom(_, _)
FirstDotFrom(s, i) ==
    IF i > Len(s) THEN 0
    ELSE IF s[i] = "." THEN i
    ELSE FirstDotFrom(s, i + 1)

\* index of the last "." of s (0 when there is none)
RECURSIVE LastDotFrom(_, _)
LastDotFrom(s, i) ==
    IF i < 1 THEN 0
    ELSE IF s[i] = "." THEN i
    ELSE LastDotFrom(s, i - 1)

\* s.split(".", 1)[-1]
AfterFirstDot(s) ==
    LET i == FirstDotFrom(s, 1)
    IN  IF i = 0 THEN s ELSE SubSeq(s, i + 1, Len(s))

\* s.split(".")[-1]
AfterLastDot(s) ==
    LET i == LastDotFrom(s, Len(s))
    IN  IF i = 0 THEN s ELSE SubSeq(s, i + 1, Len(s))

\* list.sort(key=lambda x: x[field], reverse=desc): stable in both directions
Before(a, b, desc) == IF desc THEN StrLess(b, a) ELSE StrLess(a, b)

RECURSIVE InsertBy(_, _, _, _)
InsertBy(x, s, field, desc) ==
    IF s = <<>> THEN <<x>>
    ELSE IF Before(x[field], Head(s)[field], desc) THEN <<x>> \o s
    ELSE <<Head(s)>> \o InsertBy(x, Tail(s), field, desc)

RECURSIVE SortedPrefix(_, _, _, _)
SortedPrefix(s, n, field, desc) ==
    IF n = 0 THEN <<>>
    ELSE InsertBy(s[n], SortedPrefix(s, n - 1, field, desc), field, desc)

SortBy(s, field, desc) == SortedPrefix(s, Len(s), field, desc)

-----------------------------------------------------------------------------
(* Configuration.                                                           *)

NoKey == <<>>
Key1 == <<"k1">>
Acct1 == <<"acct1">>
Placeholder == <<"your-perplexity-api-key-here">>

\* os.getenv(name, default)
GetEnv(value, default) == IF value = Unset THEN default ELSE value

\* Pipeline.__init__: self.valves = self.Valves(**{...os.getenv...})
InitValves(a, e) ==
    CASE a = "cloudflare" ->
            [key |-> GetEnv(e.key, NoKey), account |-> GetEnv(e.account, NoKey)]
      [] a = "grok" ->
            [key |-> GetEnv(e.key, NoKey), account |-> NoKey]
      [] a = "perplexity" ->
            [key |-> GetEnv(e.key, Placeholder), account |-> NoKey]

\* Cloudflare's update_headers: the key put in self.headers["Authorization"]
UpdateHeaders(a, v) == IF a = "cloudflare" THEN v.key ELSE Missing

-----------------------------------------------------------------------------
(* The catalog resolvers.                                                   *)

\* `sub in s` for strings
IsSubstr(sub, s) ==
    \E i \in 0..(Len(s) - Len(sub)) : SubSeq(s, i + 1, i + Len(sub)) = sub

\* dict.get(key, default) on a field that may be absent
Get(value, default) == IF value = Missing THEN default ELSE value

CloudflareBase == <<"https://api.cloudflare.com/client/v4/accounts">>
GrokBase == <<"https://api.x.ai/v1">>
PerplexityBase == <<"https://api.perplexity.ai">>

\* fallback_models of get_cloudflare_models
CloudflareFallback ==
    << [id |-> <<"@cf/", "meta/llama-3-8b-instruct">>, name |-> <<"Llama 3 8B Instruct">>],
       [id |-> <<"@cf/", "mistral/mistral-7b-instruct-v0", ".", "1">>,
        name |-> <<"Mistral 7B Instruct">>] >>

\* default_models of get_grok_models
GrokDefault ==
    << [id |-> <<"grok-1">>, name |-> <<"Grok-1">>],
       [id |-> <<"grok-1-mini">>, name |-> <<"Grok-1 Mini">>] >>

\* default_models of get_perplexity_models
PerplexityDefault ==
    << [id |-> <<"sonar-deep-research">>, name |-> <<"Sonar Deep Research (128k)">>],
       [id |-> <<"sonar-reasoning-pro">>, name |-> <<"Sonar Reasoning Pro (128k)">>],
       [id |-> <<"sonar-reasoning">>, name |-> <<"Sonar Reasoning (128k)">>],
       [id |-> <<"sonar-pro">>, name |-> <<"Sonar Pro (200k)">>],
       [id |-> <<"sonar">>, name |-> <<"Sonar (128k)">>],
       [id |-> <<"r1-1776">>, name |-> <<"R1-1776 (128k)">>] >>

Fallback(a) ==
    CASE a = "cloudflare" -> CloudflareFallback
      [] a = "grok" -> GrokDefault
      [] a = "perplexity" -> PerplexityDefault

\* the GET of the catalog endpoint
CatalogRequest(a, v, hdr) ==
    CASE a = "cloudflare" ->
            [method |-> "GET",
             url |-> CloudflareBase \o <<"/">> \o v.account \o <<"/ai/models">>,
             auth |-> hdr, payload |-> Missing]
      [] a = "grok" ->
            [method |-> "GET", url |-> GrokBase \o <<"/models">>,
             auth |-> v.key, payload |-> Missing]
      [] a = "perplexity" ->
            [method |-> "GET", url |-> PerplexityBase \o <<"/models">>,
             auth |-> v.key, payload |-> Missing]

\* the chat filter of get_cloudflare_models
CloudflareKeeps(m) ==
    LET model_id == Get(m.id, <<>>)
        capabilities == Get(m.caps, <<"{}">>)
        model_type == Lower(Get(m.type, <<>>))
        is_text_model ==
            \/ model_type \in {<<"text-generation">>, <<"chat", "-completions">>,
                               <<"text-to-text">>}
            \/ Contains(model_type, "chat")
    IN  model_id # <<>>
        /\ (is_text_model \/ Contains(Lower(capabilities), "chat_completions"))

\* the descriptor get_cloudflare_models appends for a kept entry
CloudflareDescriptor(m) ==
    LET model_id == Get(m.id, <<>>)
        name == Get(m.name, model_id)
        provider == Get(m.provider, <<>>)
        display_name ==
            IF provider # <<>> /\ ~IsSubstr(Lower(provider), Lower(name))
            THEN name \o <<" (">> \o provider \o <<")">>
            ELSE name
    IN  [id |-> model_id, name |-> display_name]

\* the filter of get_grok_models
GrokKeeps(m) == Contains(Lower(Get(m.id, <<>>)), "grok")

GrokDescriptor(m) ==
    LET model_id == Get(m.id, <<>>)
    IN  [id |-> model_id, name |-> Get(m.name, model_id)]

\* the context window suffix of get_perplexity_models
ContextSize(context_window) ==
    IF context_window >= 1000
    THEN <<"(", Str(context_window \div 1000), "k)">>
    ELSE <<"(", Str(context_window), ")">>

PerplexityDescriptor(m) ==
    LET model_id == Get(m.id, <<>>)
        model_name == Get(m.name, model_id)
    IN  [id |-> model_id,
         name |-> IF m.cw # 0
                  THEN model_name \o <<" ">> \o ContextSize(m.cw)
                  ELSE model_name]

Keeps(a, m) ==
    CASE a = "cloudflare" -> CloudflareKeeps(m)
      [] a = "grok" -> GrokKeeps(m)
      [] a = "perplexity" -> TRUE

Descriptor(a, m) ==
    CASE a = "cloudflare" -> CloudflareDescriptor(m)
      [] a = "grok" -> GrokDescriptor(m)
      [] a = "perplexity" -> PerplexityDescriptor(m)

\* mutant: an entry whose id was collected already is skipped
RECURSIVE CollectUnique(_, _)
CollectUnique(a, entries) ==
    IF entries = <<>> THEN <<>>
    ELSE LET earlier == CollectUnique(a, SubSeq(entries, 1, Len(entries) - 1))
             m == entries[Len(entries)]
         IN  IF Keeps(a, m)
                /\ \A i \in 1..Len(earlier) : earlier[i].id # Descriptor(a, m).id
             THEN Append(earlier, Descriptor(a, m))
             ELSE earlier

\* the loop that collects the descriptors of the kept entries, in order
RECURSIVE Collect(_, _)
Collect(a, entries) ==
    IF entries = <<>> THEN <<>>
    ELSE IF Keeps(a, Head(entries))
         THEN <<Descriptor(a, Head(entries))>> \o Collect(a, Tail(entries))
         ELSE Collect(a, Tail(entries))

\* the final sort of each resolver
SortCatalog(a, models) ==
    CASE a = "cloudflare" -> SortBy(models, "name", FALSE)
      [] a = "grok" -> SortBy(models, "id", TRUE)
      [] a = "perplexity" -> SortBy(models, "name", FALSE)

\* `if not self.valves.<KEY>` at the top of each resolver
ResolverHasCredentials(a, v) ==
    IF a = "cloudflare" THEN v.key # NoKey /\ v.account # NoKey ELSE v.key # NoKey

\* what a resolver returns for a non-200 status
OnCatalogStatus(a) == IF a = "cloudflare" THEN <<>> ELSE Fallback(a)

\* what a resolver returns for a JSON object of the wrong shape
OnCatalogShape(a) == IF a = "cloudflare" THEN <<>> ELSE Fallback(a)

\* the body of a 200 answer has the shape the resolver expects
CatalogShapeOk(a, resp) ==
    IF a = "cloudflare" THEN resp.success /\ resp.hasData ELSE resp.hasData

\* what a resolver returns when no entry is kept
OnNoModels(a) == Fallback(a)

Raise == [raised |-> TRUE, models |-> <<>>]
Return(models) == [raised |-> FALSE, models |-> models]

\* the try block of a resolver, once the GET has been answered by resp:
\* the models it returns, or the exception raised inside it
ResolverTry(a, resp) ==
    IF resp.kind = "exception" THEN Raise
    ELSE IF resp.status # 200 THEN Return(OnCatalogStatus(a))
    ELSE IF resp.fmt = "badjson" THEN Raise
    ELSE IF resp.fmt = "notdict"
         THEN (IF a = "cloudflare" THEN Raise ELSE Return(Fallback(a)))
    ELSE IF ~CatalogShapeOk(a, resp) THEN Return(OnCatalogShape(a))
    ELSE IF \E i \in 1..Len(resp.entries) : ~resp.entries[i].isdict THEN Raise
    ELSE LET models == Collect(a, resp.entries)
         IN  IF models = <<>> THEN Return(OnNoModels(a))
             ELSE Return(SortCatalog(a, models))

\* mutant: the except clause lets the exception through
ResolverExceptReraises(a, t) == t

\* `except Exception as e: ... return fallback` around the try block
ResolverExcept(a, t) == IF t.raised THEN Return(Fallback(a)) ELSE t

\* get_cloudflare_models / get_grok_models / get_perplexity_models:
\* the catalog returned (or the exception that escaped) and the requests sent
GetModels(a, v, hdr, resp) ==
    IF ~ResolverHasCredentials(a, v)
    THEN [models |-> Fallback(a), sent |-> <<>>, raised |-> FALSE]
    ELSE LET r == ResolverExcept(a, ResolverTry(a, resp))
         IN  [models |-> r.models,
              sent |-> <<CatalogRequest(a, v, hdr)>>,
              raised |-> r.raised]

-----------------------------------------------------------------------------
(* Enumerated inputs of the catalog side.                                   *)

Entry(id, name, type, caps, provider, cw) ==
    [isdict |-> TRUE, id |-> id, name |-> name, type |-> type, caps |-> caps,
     provider |-> provider, cw |-> cw]

\* an element of the list that is not a JSON object
NotAnObject ==
    [isdict |-> FALSE, id |-> Missing, name |-> Missing, type |-> Missing,
     caps |-> Missing, provider |-> Missing, cw |-> 0]

\* entries a vendor may list: kept and dropped ones, two with the same sort key
EntryPool(a) ==
    CASE a = "cloudflare" ->
            { Entry(<<"@cf/", "m">>, <<"Llama">>, <<"Text-Generation">>, Missing,
                    Missing, 0),
              Entry(<<"m">>, <<"Llama">>, <<"voice-", "chat">>, Missing,
                    <<"llama">>, 0),
              Entry(<<"@cf/", "m", ".", "v">>, Missing, <<"embedding">>,
                    <<"{'", "Chat_Completions", "': True}">>, <<"Meta">>, 0),
              Entry(<<"x">>, <<"Image">>, <<"text-to-image">>, Missing, Missing, 0) }
      [] a = "grok" ->
            { Entry(<<"grok", "-2">>, <<"Grok 2">>, Missing, Missing, Missing, 0),
              Entry(<<"grok", "-2">>, Missing, Missing, Missing, Missing, 0),
              Entry(<<"Grok", "-1">>, Missing, Missing, Missing, Missing, 0),
              Entry(<<"gpt">>, <<"GPT">>, Missing, Missing, Missing, 0) }
      [] a = "perplexity" ->
            { Entry(<<"sonar">>, <<"Sonar">>, Missing, Missing, Missing, 128000),
              Entry(<<"sonar", "-pro">>, <<"Sonar">>, Missing, Missing, Missing, 128000),
              Entry(<<"r1">>, Missing, Missing, Missing, Missing, 500),
              Entry(Missing, Missing, Missing, Missing, Missing, 0) }

\* lists with an entry of an unexpected shape: not an object, or without an id
OddEntryLists ==
    { <<NotAnObject>>,
      <<Entry(Missing, <<"Llama">>, <<"text-generation">>, Missing, Missing, 0)>> }

CatalogAnswer(kind, status, fmt, success, hasData, entries) ==
    [kind |-> kind, status |-> status, fmt |-> fmt, success |-> success,
     hasData |-> hasData, entries |-> entries]

\* answers to the catalog GET: a network exception, a non-200 status, a body
\* that is not JSON, JSON that is not an object, an object of the wrong
\* shape, and well-formed lists of up to MaxEntries entries
CatalogAnswers(a) ==
    { CatalogAnswer("exception", 0, "none", FALSE, FALSE, <<>>),
      CatalogAnswer("http", 500, "dict", FALSE, FALSE, <<>>),
      CatalogAnswer("http", 200, "badjson", FALSE, FALSE, <<>>),
      CatalogAnswer("http", 200, "notdict", FALSE, FALSE, <<>>),
      CatalogAnswer("http", 200, "dict", TRUE, FALSE, <<>>),
      CatalogAnswer("http", 200, "dict", FALSE, TRUE, <<>>) }
    \cup { CatalogAnswer("http", 200, "dict", TRUE, TRUE, es) :
             es \in SeqsUpTo(EntryPool(a), MaxEntries) \cup OddEntryLists }

EnvKeys == {Unset, Key1}
EnvAccounts(a) == IF a = "cloudflare" THEN {Unset, Acct1} ELSE {Unset}
ValveKeys == {NoKey, Key1}
ValveAccounts(a) == IF a = "cloudflare" THEN {NoKey, Acct1} ELSE {NoKey}

-----------------------------------------------------------------------------
(* The request translator: payload and messages.                            *)

ParamNames ==
    {"temperature", "top_p", "max_tokens", "presence_penalty", "frequency_penalty"}
HostOnlyKeys == {"user", "chat_id", "title"}
Null == <<"null">>

NoParams == [p \in ParamNames |-> Missing]
NoPayload ==
    [model |-> Missing, messages |-> <<>>, stream |-> FALSE, params |-> NoParams,
     return_citations |-> FALSE, return_images |-> FALSE, other |-> {}]
NoBody ==
    [hasMessages |-> FALSE, messages |-> <<>>, stream |-> "absent",
     params |-> NoParams, extra |-> {}]

Msg(role, content) == [role |-> role, content |-> content]

\* mutant: Cloudflare splits at every "." like the other two adapters
CloudflareModelNameLast(model_id) ==
    IF HasDot(model_id) THEN AfterLastDot(model_id) ELSE model_id

\* model_id.split(".", 1)[-1] if "." in model_id else model_id
CloudflareModelName(model_id) ==
    IF HasDot(model_id) THEN AfterFirstDot(model_id) ELSE model_id

\* model_id.split(".")[-1] if "." in model_id else model_id
GrokModelName(model_id) ==
    IF HasDot(model_id) THEN AfterLastDot(model_id) ELSE model_id

\* model_id.split(".")[-1] if "." in model_id else model_id
PerplexityModelName(model_id) ==
    IF HasDot(model_id) THEN AfterLastDot(model_id) ELSE model_id

ModelName(a, model_id) ==
    CASE a = "cloudflare" -> CloudflareModelName(model_id)
      [] a = "grok" -> GrokModelName(model_id)
      [] a = "perplexity" -> PerplexityModelName(model_id)

\* body.get("messages", [])
BodyMessages(body) == IF body.hasMessages THEN body.messages ELSE <<>>

\* body.get("stream", True)
PayloadStream(body) == IF body.stream = "absent" THEN TRUE ELSE body.stream = "true"

\* body.get("stream", False), Perplexity's test before returning
PerplexityReturnsStream(body) ==
    IF body.stream = "absent" THEN FALSE ELSE body.stream = "true"

\* mutant: a parameter the host set to null is copied as well
PayloadParamsCopiesNull(body) == body.params

\* `if param in body and body[param] is not None: payload[param] = body[param]`
PayloadParams(body) ==
    [p \in ParamNames |->
        IF body.params[p] # Missing /\ body.params[p] # Null
        THEN body.params[p] ELSE Missing]

\* `if key in payload: del payload[key]` for user, chat_id, title
DropHostOnly(keys) == keys \ HostOnlyKeys

\* the payload of Cloudflare and Grok before validation
PlainPayload(a, model_name, body) ==
    [model |-> model_name,
     messages |-> BodyMessages(body),
     stream |-> PayloadStream(body),
     params |-> PayloadParams(body),
     return_citations |-> FALSE, return_images |-> FALSE,
     other |-> IF a = "cloudflare" THEN DropHostOnly({}) ELSE {}]

\* Grok's loop over payload["messages"]: absent role and content are filled in,
\* in the dictionaries of the host's body
GrokFill(m) ==
    Msg(IF m.role = Missing THEN <<"user">> ELSE m.role,
        IF m.content = Missing THEN <<>> ELSE m.content)

GrokFilledMessages(messages) == [i \in 1..Len(messages) |-> GrokFill(messages[i])]

\* utils.pipelines.main.pop_system_message: the first system message (or
\* None) and the messages that are not system messages
IsSystem(m) == m.role = <<"system">>

PopSystemMessage(messages) ==
    LET idx == {i \in 1..Len(messages) : IsSystem(messages[i])}
    IN  [found |-> idx # {},
         system |-> IF idx # {}
                    THEN messages[CHOOSE i \in idx : \A j \in idx : i <= j]
                    ELSE Msg(Missing, Missing),
         rest |-> SelectSeq(messages, LAMBDA m : ~IsSystem(m))]

DefaultSystemPrompt == <<"You are a helpful assistant.">>

\* a KeyError raised while Perplexity rebuilds the messages, outside its try:
\* system_message["content"], messages[-1]["role"], messages[-1]["content"]
PerplexityRebuildRaises(user_message, messages) ==
    LET popped == PopSystemMessage(messages)
        rest == popped.rest
    IN  \/ (popped.found /\ popped.system.content = Missing)
        \/ /\ user_message # <<>>
           /\ rest # <<>>
           /\ \/ rest[Len(rest)].role = Missing
              \/ (rest[Len(rest)].role = <<"user">> /\ rest[Len(rest)].content = Missing)

\* mutant: the current user message is appended whenever it is not empty
PerplexityAppendsUserAlways(user_message, rest) == user_message # <<>>

\* the condition under which Perplexity appends the current user message
PerplexityAppendsUser(user_message, rest) ==
    /\ user_message # <<>>
    /\ \/ rest = <<>>
       \/ rest[Len(rest)].role # <<"user">>
       \/ rest[Len(rest)].content # user_message

\* mutant: the conversation history is left out
PerplexityMessagesLatestOnly(user_message, messages) ==
    <<Msg(<<"system">>, DefaultSystemPrompt)>>
    \o (IF user_message # <<>> THEN <<Msg(<<"user">>, user_message)>> ELSE <<>>)

\* formatted_messages of Perplexity's pipe
PerplexityMessages(user_message, messages) ==
    LET popped == PopSystemMessage(messages)
        rest == popped.rest
        system_prompt == IF popped.found THEN popped.system.content
                         ELSE DefaultSystemPrompt
    IN  <<Msg(<<"system">>, system_prompt)>>
        \o [i \in 1..Len(rest) |->
              Msg(Get(rest[i].role, <<"user">>), Get(rest[i].content, <<>>))]
        \o (IF PerplexityAppendsUser(user_message, rest)
            THEN <<Msg(<<"user">>, user_message)>> ELSE <<>>)

PerplexityPayload(model_name, user_message, messages, body) ==
    [model |-> model_name,
     messages |-> PerplexityMessages(user_message, messages),
     stream |-> PayloadStream(body),
     params |-> PayloadParams(body),
     return_citations |-> TRUE, return_images |-> TRUE,
     other |-> DropHostOnly({})]

-----------------------------------------------------------------------------
(* Transport and response normalizer.                                       *)

Result(kind, text, doc, from) == [kind |-> kind, text |-> text, doc |-> doc, from |-> from]
NoDoc == [meta |-> FALSE, hasCitations |-> FALSE, citations |-> <<>>, choices |-> <<>>]
NoResult == Result("none", <<>>, NoDoc, 0)

\* a string returned to the host
String(text) == Result("string", text, NoDoc, 0)
\* r.iter_lines() of the n-th request sent
Lines(n) == Result("stream", <<>>, NoDoc, n)
\* a mapping built from the n-th response
Object(doc, n) == Result("object", <<>>, doc, n)
\* an exception that leaves pipe
Raised(text) == Result("raised", text, NoDoc, 0)

Post(url, auth, payload) ==
    [method |-> "POST", url |-> url, auth |-> auth, payload |-> payload]

Reason(status) ==
    CASE status = 400 -> "Bad Request"
      [] status = 404 -> "Not Found"
      [] status = 401 -> "Unauthorized"
      [] OTHER -> "Internal Server Error"

\* f"Error: {r.status_code} {r.reason} for url: {r.url}"
ErrorPrefix(status, url) ==
    <<"Error:", " ", Str(status), " ", Reason(status), " for url: ">> \o url

ErrorsMessage == <<"errors[0].message">>
ErrorMessage == <<"error.message">>
ErrorString == <<"error as text">>
ErrorObject == <<"{'code': 7}">>

\* the inner `except:` that falls back to r.text
TextDetail(body) == IF body.text # <<>> THEN <<". Details: ">> \o body.text ELSE <<>>

\* what Cloudflare's pipe appends for the body of a non-200 answer
CloudflareErrorDetail(body) ==
    IF body.fmt = "text" THEN TextDetail(body)
    ELSE IF body.fmt = "list" THEN <<>>
    ELSE IF body.errors = "msg" THEN <<". ">> \o ErrorsMessage
    ELSE IF body.errors = "nomsg" THEN TextDetail(body)
    ELSE IF body.error = "absent" THEN <<>>
    ELSE IF body.error = "obj_msg" THEN <<". ">> \o ErrorMessage
    ELSE IF body.error = "str" THEN <<". ">> \o ErrorString
    ELSE <<". ">> \o ErrorObject

\* what Grok's and Perplexity's pipe append for the body of a non-200 answer
PlainErrorDetail(body) ==
    IF body.fmt = "text" THEN TextDetail(body)
    ELSE IF body.fmt = "list" THEN <<>>
    ELSE IF body.error = "absent" THEN <<>>
    ELSE IF body.error = "obj_msg" THEN <<". ">> \o ErrorMessage
    ELSE IF body.error = "obj_nomsg" THEN <<". ">>
    ELSE TextDetail(body)

Troubleshooting ==
    <<"\n\nTroubleshooting: Please check that your Cloudflare API key and Account ID are correct and have the necessary permissions.">>

\* the three except clauses that close pipe's try block
TimeoutText(a) == <<"Error:", " Request to ", a, " API timed out. Please try again later.">>
ConnectionText(a) ==
    <<"Error:", " Could not connect to ", a, " API. Please check your internet connection.">>
ExceptionText(e) == <<"Error:", " ">> \o e

\* requests.post raised: which except clause answers
OnPostException(a, kind) ==
    CASE kind = "timeout" -> String(TimeoutText(a))
      [] kind = "connection" -> String(ConnectionText(a))
      [] OTHER -> String(ExceptionText(<<"requests error">>))

JsonError == <<"Expecting value: line 1 column 1 (char 0)">>
UnboundLocal ==
    <<"cannot access local variable 'model_id_for_url' where it is not associated with a value">>

\* a local variable that was never assigned
Unbound == <<"<unbound>">>

\* r.json() of a 200 answer for Cloudflare and Grok, inside the try block
PlainJson(a, body, n) ==
    IF body.fmt = "text" THEN String(ExceptionText(JsonError)) ELSE Object(body.doc, n)

-----------------------------------------------------------------------------
(* pipe.                                                                    *)

\* what a pipe call did: its return value, the requests it sent, the answers
\* it received, and the host's body afterwards
Outcome(result, sent, got, after) ==
    [result |-> result, sent |-> sent, got |-> got, after |-> after]

EndsWith(s, suffix) ==
    Len(suffix) <= Len(s) /\ SubSeq(s, Len(s) - Len(suffix) + 1, Len(s)) = suffix

\* model_name.startswith("@cf/")
StartsWithCf(model_name) == model_name # <<>> /\ Head(model_name) = "@cf/"

\* model_name.replace("@cf/", "")
StripCf(model_name) == SelectSeq(model_name, LAMBDA t : t # "@cf/")

CloudflareRunUrl(v, model_id_for_url) ==
    CloudflareBase \o <<"/">> \o v.account \o <<"/ai/run/">> \o model_id_for_url

CloudflareChatUrl(v) ==
    CloudflareBase \o <<"/">> \o v.account \o <<"/ai/v1/chat/completions">>

\* mutant: the alternate endpoint is tried after every failure
FallbackStatusAny(status) == status # 200

\* `r.status_code in [400, 404]`
FallbackStatus(status) == status \in {400, 404}

\* mutant: the lookup in the catalog is skipped
ModelExistsAlways(catalog, model_name) == TRUE

\* the model is in self.pipelines
ModelExists(catalog, model_name) ==
    \E i \in 1..Len(catalog) : catalog[i].id = model_name

\* the answer of the alternate endpoint, inside the inner try
CloudflareFallbackResult(fallback_payload, fb, error_message) ==
    IF fb.kind # "http" THEN String(error_message)
    ELSE IF fb.status # 200 THEN String(error_message)
    ELSE IF fallback_payload.stream THEN Lines(2)
    ELSE IF fb.body.fmt = "text" THEN String(error_message)
    ELSE Object(fb.body.doc, 2)

\* Cloudflare's branch for a non-200 answer to the first POST
CloudflareOnError(v, hdr, model_name, model_id_for_url, url, payload, body, answer, fb) ==
    LET error_message ==
            ErrorPrefix(answer.status, url) \o CloudflareErrorDetail(answer.body)
            \o Troubleshooting
        first == Post(url, hdr, payload)
    IN  IF model_id_for_url = Unbound
        THEN Outcome(String(ExceptionText(UnboundLocal)), <<first>>, <<answer>>, body)
        ELSE IF EndsWith(url, <<"/ai/run/">> \o model_id_for_url)
                /\ FallbackStatus(answer.status)
        THEN LET fallback_payload == [payload EXCEPT !.model = model_name]
                 second == Post(CloudflareChatUrl(v), hdr, fallback_payload)
             IN  Outcome(CloudflareFallbackResult(fallback_payload, fb, error_message),
                         <<first, second>>, <<answer, fb>>, body)
        ELSE Outcome(String(error_message), <<first>>, <<answer>>, body)

\* Cloudflare's try block: the POST and what follows
CloudflareTransport(v, hdr, model_name, model_id_for_url, url, payload, body, answer, fb) ==
    LET first == Post(url, hdr, payload)
    IN  IF answer.kind # "http"
        THEN Outcome(OnPostException("Cloudflare AI", answer.kind), <<first>>, <<answer>>, body)
        ELSE IF answer.status # 200
        THEN CloudflareOnError(v, hdr, model_name, model_id_for_url, url, payload,
                               body, answer, fb)
        ELSE IF payload.stream
        THEN Outcome(Lines(1), <<first>>, <<answer>>, body)
        ELSE Outcome(PlainJson("cloudflare", answer.body, 1), <<first>>, <<answer>>, body)

\* Pipeline.pipe of cloudflare_ai_pipeline.py
CloudflarePipe(v, hdr, catalog, call, answer, fb) ==
    LET body == call.body
        model_name == CloudflareModelName(call.model_id)
        payload0 == PlainPayload("cloudflare", model_name, body)
        isRun == StartsWithCf(model_name)
        model_id_for_url == IF isRun THEN StripCf(model_name) ELSE Unbound
        url == IF isRun THEN CloudflareRunUrl(v, model_id_for_url)
               ELSE CloudflareChatUrl(v)
        payload == IF isRun THEN [payload0 EXCEPT !.model = Missing] ELSE payload0
    IN  IF v.key = NoKey
        THEN Outcome(String(<<"Error:", " No Cloudflare API key provided. Please add your API key in the pipeline valves.">>),
                     <<>>, <<>>, body)
        ELSE IF v.account = NoKey
        THEN Outcome(String(<<"Error:", " No Cloudflare Account ID provided. Please add your Account ID in the pipeline valves.">>),
                     <<>>, <<>>, body)
        ELSE IF ~ModelExists(catalog, model_name)
        THEN Outcome(String(<<"Error:", " Model '">> \o model_name
                            \o <<"' not found in available Cloudflare models. Please select a different model.">>),
                     <<>>, <<>>, body)
        ELSE IF payload0.messages = <<>>
        THEN Outcome(String(<<"Error:", " No messages provided in the request">>),
                     <<>>, <<>>, body)
        ELSE CloudflareTransport(v, hdr, model_name, model_id_for_url, url, payload,
                                 body, answer, fb)

\* the try block shared in shape by Grok and Perplexity, up to a 200 answer
PlainOnError(url, answer) ==
    String(ErrorPrefix(answer.status, url) \o PlainErrorDetail(answer.body))

\* Pipeline.pipe of grok_manifold_pipeline.py
GrokPipe(v, call, answer) ==
    LET body == call.body
        model_name == GrokModelName(call.model_id)
        payload0 == PlainPayload("grok", model_name, body)
        payload == [payload0 EXCEPT !.messages = GrokFilledMessages(payload0.messages)]
        after == IF body.hasMessages
                 THEN [body EXCEPT !.messages = GrokFilledMessages(body.messages)]
                 ELSE body
        url == GrokBase \o <<"/chat/completions">>
        first == Post(url, v.key, payload)
    IN  IF v.key = NoKey
        THEN Outcome(String(<<"Error:", " No Grok API key provided. Please add your API key in the pipeline valves.">>),
                     <<>>, <<>>, body)
        ELSE IF payload0.messages = <<>>
        THEN Outcome(String(<<"Error:", " No messages provided in the request">>),
                     <<>>, <<>>, body)
        ELSE IF answer.kind # "http"
        THEN Outcome(OnPostException("Grok", answer.kind), <<first>>, <<answer>>, after)
        ELSE IF answer.status # 200
        THEN Outcome(PlainOnError(url, answer), <<first>>, <<answer>>, after)
        ELSE IF payload.stream
        THEN Outcome(Lines(1), <<first>>, <<answer>>, after)
        ELSE Outcome(PlainJson("grok", answer.body, 1), <<first>>, <<answer>>, after)

\* f'<a href="{citation["url"]}" target="_blank" rel="noopener noreferrer">{citation["title"]}</a>'
Anchor(citation) ==
    <<"<a href=\"", citation.url, "\" target=\"_blank\" rel=\"noopener noreferrer\">",
      citation.title, "</a>">>

\* "<br>".join([f"(bullet) {citation}" for citation in citations])
RECURSIVE JoinBullets(_)
JoinBullets(anchors) ==
    IF anchors = <<>> THEN <<>>
    ELSE IF Len(anchors) = 1 THEN <<"* ">> \o Head(anchors)
    ELSE <<"* ">> \o Head(anchors) \o <<"<br>">> \o JoinBullets(Tail(anchors))

\* mutant: the anchors come out in reverse order
RenderCitationsReversed(citations) ==
    [i \in 1..Len(citations) |-> Anchor(citations[Len(citations) + 1 - i])]

\* the anchors rendered from response["citations"], in the order of the array
RenderCitations(citations) == [i \in 1..Len(citations) |-> Anchor(citations[i])]

\* content of the first choice, with the Sources block when there are citations
ContentWithSources(content, anchors) ==
    IF anchors # <<>>
    THEN content \o <<"<br><br><b>Sources:</b><br>">> \o JoinBullets(anchors)
    ELSE content

\* the content Perplexity gives to the choice at position i
ChoiceContent(doc, i, content) == content

\* formatted_response["choices"]
FormattedChoices(doc, content) ==
    [i \in 1..Len(doc.choices) |->
        [index |-> doc.choices[i].index,
         finish_reason |-> doc.choices[i].finish_reason,
         role |-> doc.choices[i].role,
         content |-> ChoiceContent(doc, i, content),
         delta |-> [role |-> "assistant", content |-> <<>>]]]

\* Perplexity's non-streaming branch for a 200 answer, inside the try block
PerplexityFormat(body, n) ==
    IF body.fmt = "text" THEN String(ExceptionText(JsonError))
    ELSE IF body.fmt = "list"
    THEN String(ExceptionText(<<"list indices must be integers or slices, not str">>))
    ELSE LET doc == body.doc
             citations == IF doc.hasCitations THEN RenderCitations(doc.citations)
                          ELSE <<>>
         IN  IF doc.hasCitations
                /\ \E i \in 1..Len(doc.citations) :
                      doc.citations[i].url = "<missing>" \/ doc.citations[i].title = "<missing>"
             THEN String(ExceptionText(<<"'url'">>))
             ELSE IF doc.choices = <<>>
             THEN String(ExceptionText(<<"list index out of range">>))
             ELSE IF doc.choices[1].content = Missing
             THEN String(ExceptionText(<<"'content'">>))
             ELSE IF ~doc.meta
             THEN String(ExceptionText(<<"'id'">>))
             ELSE Object([meta |-> TRUE, hasCitations |-> FALSE, citations |-> <<>>,
                          choices |-> FormattedChoices(doc,
                              ContentWithSources(doc.choices[1].content, citations))],
                         n)

\* Pipeline.pipe of perplexity_manifold_pipeline.py
PerplexityPipe(v, call, answer) ==
    LET body == call.body
        model_name == PerplexityModelName(call.model_id)
        payload == PerplexityPayload(model_name, call.user_message, call.messages, body)
        url == PerplexityBase \o <<"/chat/completions">>
        first == Post(url, v.key, payload)
    IN  IF v.key = NoKey
        THEN Outcome(String(<<"Error:", " No Perplexity API key provided. Please add your API key in the pipeline valves.">>),
                     <<>>, <<>>, body)
        ELSE IF PerplexityRebuildRaises(call.user_message, call.messages)
        THEN Outcome(Raised(<<"KeyError">>), <<>>, <<>>, body)
        ELSE IF answer.kind # "http"
        THEN Outcome(OnPostException("Perplexity", answer.kind), <<first>>, <<answer>>, body)
        ELSE IF answer.status # 200
        THEN Outcome(PlainOnError(url, answer), <<first>>, <<answer>>, body)
        ELSE IF PerplexityReturnsStream(body)
        THEN Outcome(Lines(1), <<first>>, <<answer>>, body)
        ELSE Outcome(PerplexityFormat(answer.body, 1), <<first>>, <<answer>>, body)

Pipe(a, v, hdr, catalog, call, answer, fb) ==
    CASE a = "cloudflare" -> CloudflarePipe(v, hdr, catalog, call, answer, fb)
      [] a = "grok" -> GrokPipe(v, call, answer)
      [] a = "perplexity" -> PerplexityPipe(v, call, answer)

-----------------------------------------------------------------------------
(* Enumerated inputs of pipe.                                               *)

Call(user_message, model_id, messages, body) ==
    [user_message |-> user_message, model_id |-> model_id, messages |-> messages,
     body |-> body]

Body(hasMessages, messages, stream, params, extra) ==
    [hasMessages |-> hasMessages, messages |-> IF hasMessages THEN messages ELSE <<>>,
     stream |-> stream, params |-> params, extra |-> extra]

RECURSIVE Versions(_)
Versions(d) == IF d = 0 THEN <<>> ELSE <<".", "v">> \o Versions(d - 1)

\* vendor model names: with and without the @cf/ prefix, with 0..MaxNameDots dots
ModelNames ==
    {(IF cf THEN <<"@cf/">> ELSE <<>>) \o <<"m">> \o Versions(d) :
        cf \in BOOLEAN, d \in 0..MaxNameDots}

\* model ids the host passes: a vendor name alone or behind a routing prefix
ModelIds ==
    ModelNames
    \cup {<<"p", ".">> \o n : n \in ModelNames}
    \cup {<<"cloudflare", ".">> \o CloudflareFallback[2].id}

Hi == <<"hi">>
UserHi == Msg(<<"user">>, Hi)
OneTurn == <<UserHi>>

\* messages a host may pass, some without role or content
MsgPool ==
    { Msg(<<"system">>, <<"be brief">>),
      UserHi,
      Msg(<<"assistant">>, <<"hello">>),
      Msg(Missing, <<"no role">>),
      Msg(<<"user">>, Missing) }

Streams == {"absent", "true", "false"}

SomeParams ==
    [p \in ParamNames |->
        CASE p = "temperature" -> <<"0.7">>
          [] p = "top_p" -> Null
          [] OTHER -> Missing]

PostBody(fmt, text, errors, error, doc) ==
    [fmt |-> fmt, text |-> text, errors |-> errors, error |-> error, doc |-> doc]

PostAnswer(kind, status, body) == [kind |-> kind, status |-> status, body |-> body]

NoPostBody == PostBody("text", <<>>, "absent", "absent", NoDoc)

Citation(url, title) == [url |-> url, title |-> title]
Choice(index, finish_reason, role, content) ==
    [index |-> index, finish_reason |-> finish_reason, role |-> role, content |-> content]

Doc(meta, hasCitations, citations, choices) ==
    [meta |-> meta, hasCitations |-> hasCitations,
     citations |-> IF hasCitations THEN citations ELSE <<>>, choices |-> choices]

Answer0 == Choice(0, "stop", "assistant", <<"first answer">>)
Answer1 == Choice(1, "length", "assistant", <<"second answer">>)
SimpleDoc == Doc(TRUE, FALSE, <<>>, <<Answer0>>)

JsonText == <<"{json}">>

\* a 200 answer carrying a JSON document
Ok(doc) == PostAnswer("http", 200, PostBody("dict", JsonText, "absent", "absent", doc))
\* a 200 answer whose body is not JSON (an event stream, say)
OkNotJson == PostAnswer("http", 200, PostBody("text", <<"data: {}">>, "absent", "absent", NoDoc))

\* bodies of a non-200 answer: plain text, nothing, a JSON list, and JSON
\* objects with and without the vendor's error fields
ErrorBodies ==
    { PostBody("text", <<"oops">>, "absent", "absent", NoDoc),
      PostBody("text", <<>>, "absent", "absent", NoDoc),
      PostBody("list", JsonText, "absent", "absent", NoDoc),
      PostBody("dict", JsonText, "absent", "absent", NoDoc),
      PostBody("dict", JsonText, "msg", "absent", NoDoc),
      PostBody("dict", JsonText, "nomsg", "absent", NoDoc),
      PostBody("dict", JsonText, "empty", "obj_msg", NoDoc),
      PostBody("dict", JsonText, "absent", "obj_msg", NoDoc),
      PostBody("dict", JsonText, "absent", "obj_nomsg", NoDoc),
      PostBody("dict", JsonText, "absent", "str", NoDoc) }

ErrorStatuses == {400, 404, 500}

PostExceptions ==
    {PostAnswer(k, 0, NoPostBody) : k \in {"timeout", "connection", "other"}}

\* every kind of answer to the chat POST
ErrorAnswers ==
    PostExceptions
    \cup {PostAnswer("http", st, b) : st \in ErrorStatuses, b \in ErrorBodies}
    \cup {Ok(SimpleDoc), OkNotJson}

\* answers of Cloudflare's alternate endpoint
FallbackAnswers ==
    { PostAnswer("connection", 0, NoPostBody),
      Ok(SimpleDoc),
      OkNotJson,
      PostAnswer("http", 500, PostBody("dict", JsonText, "msg", "absent", NoDoc)) }

\* one answer of each kind
FewAnswers ==
    { PostAnswer("timeout", 0, NoPostBody),
      PostAnswer("http", 500, PostBody("dict", JsonText, "msg", "obj_msg", NoDoc)),
      PostAnswer("http", 404, PostBody("text", <<"oops">>, "absent", "absent", NoDoc)),
      Ok(SimpleDoc),
      OkNotJson }

FewFallbacks == {Ok(SimpleDoc), PostAnswer("http", 500, NoPostBody)}

\* a vendor list that holds the names pipe is called with
ListedEntries(a) ==
    CASE a = "cloudflare" ->
            << Entry(<<"@cf/", "m">>, <<"Llama">>, <<"Text-Generation">>, Missing,
                     Missing, 0),
               Entry(<<"m">>, <<"Llama">>, <<"voice-", "chat">>, Missing, <<"llama">>, 0),
               Entry(<<"@cf/", "m", ".", "v">>, Missing, <<"embedding">>,
                     <<"{'", "Chat_Completions", "': True}">>, <<"Meta">>, 0) >>
      [] a = "grok" ->
            << Entry(<<"grok", "-2">>, <<"Grok 2">>, Missing, Missing, Missing, 0) >>
      [] a = "perplexity" ->
            << Entry(<<"sonar">>, <<"Sonar">>, Missing, Missing, Missing, 128000) >>

Listing(a) == CatalogAnswer("http", 200, "dict", TRUE, TRUE, ListedEntries(a))

\* the environment with every variable unset, or every variable set
PlainEnvs(a) ==
    { [key |-> Unset, account |-> Unset],
      [key |-> Key1, account |-> IF a = "cloudflare" THEN Acct1 ELSE Unset] }

-----------------------------------------------------------------------------
(* Events.                                                                  *)

NoCall == [user_message |-> <<>>, model_id |-> <<>>, messages |-> <<>>, body |-> NoBody]

\* an event that is not a pipe call
\* repeat: the event is a catalog refresh that directly follows another one
Event(op, sent, got, result) ==
    [op |-> op, call |-> NoCall, sent |-> sent, got |-> got, result |-> result,
     after |-> NoBody, repeat |-> FALSE]

RefreshOps == {"init", "on_valves_updated"}

\* a pipe call and its outcome
PipeEvent(call, out) ==
    [op |-> "pipe", call |-> call, sent |-> out.sent, got |-> out.got,
     result |-> out.result, after |-> out.after, repeat |-> FALSE]

\* Pipeline(): valves from the environment, headers, first catalog fetch
Construct(a, e, answer) ==
    LET v == InitValves(a, e)
        hdr == UpdateHeaders(a, v)
        got == GetModels(a, v, hdr, answer)
    IN  /\ adapter = a
        /\ env = e
        /\ valves = v
        /\ headers = hdr
        /\ vendor = answer
        /\ pipelines = got.models
        /\ last = Event("init", got.sent, IF got.sent = <<>> THEN <<>> ELSE <<answer>>,
                        IF got.raised THEN Raised(<<>>) ELSE NoResult)

\* the host stores new valves in the object (it calls on_valves_updated afterwards)
SetValves ==
    /\ \E k \in ValveKeys, acct \in ValveAccounts(adapter) :
         valves' = [key |-> k, account |-> acct]
    /\ last' = Event("set_valves", <<>>, <<>>, NoResult)
    /\ UNCHANGED <<adapter, env, headers, pipelines, vendor>>

\* the vendor's answer to the catalog GET changes
VendorChange(answers) ==
    /\ \E answer \in answers : vendor' = answer
    /\ vendor' # vendor
    /\ last' = Event("vendor_change", <<>>, <<>>, NoResult)
    /\ UNCHANGED <<adapter, env, valves, headers, pipelines>>

\* mutant: the refresh appends to the catalog it already holds
RefreshedCatalogAppends(got) == pipelines \o got.models

\* mutant: the refresh keeps the catalog it already holds
RefreshedCatalogKept(got) == pipelines

\* self.pipelines after on_valves_updated
RefreshedCatalog(got) == got.models

\* on_valves_updated: (Cloudflare: update_headers, then) refresh the catalog
OnValvesUpdated ==
    LET hdr == UpdateHeaders(adapter, valves)
        got == GetModels(adapter, valves, hdr, vendor)
    IN  /\ headers' = hdr
        /\ pipelines' = RefreshedCatalog(got)
        /\ last' = [Event("on_valves_updated", got.sent,
                               IF got.sent = <<>> THEN <<>> ELSE <<vendor>>,
                               IF got.raised THEN Raised(<<>>) ELSE NoResult)
                         EXCEPT !.repeat = last.op \in RefreshOps]
        /\ UNCHANGED <<adapter, env, valves, vendor>>

\* on_startup: logs only
OnStartup ==
    /\ last' = Event("on_startup", <<>>, <<>>, NoResult)
    /\ UNCHANGED <<adapter, env, valves, headers, pipelines, vendor>>

\* on_shutdown: logs only
OnShutdown ==
    /\ last' = Event("on_shutdown", <<>>, <<>>, NoResult)
    /\ UNCHANGED <<adapter, env, valves, headers, pipelines, vendor>>

-----------------------------------------------------------------------------
(* The catalog side on its own: every answer to the catalog GET.            *)

InitCatalog ==
    \E a \in Adapters, k \in EnvKeys :
      \E acct \in EnvAccounts(a), answer \in CatalogAnswers(a) :
        Construct(a, [key |-> k, account |-> acct], answer)

\* the host calls pipe; the vendor answers the POST with `answer` and, when
\* Cloudflare tries its alternate endpoint, that second POST with `fb`; the
\* answers are drawn only as far as the call gets
PipeCall(calls, answers, fallbacks) ==
    /\ \E call \in calls :
         LET a0 == CHOOSE x \in answers : TRUE
             f0 == CHOOSE x \in fallbacks : TRUE
             early == Pipe(adapter, valves, headers, pipelines, call, a0, f0)
         IN  IF early.sent = <<>>
             THEN last' = PipeEvent(call, early)
             ELSE \E answer \in answers :
                    LET once == Pipe(adapter, valves, headers, pipelines, call, answer, f0)
                    IN  IF Len(once.sent) = 1
                        THEN last' = PipeEvent(call, once)
                        ELSE \E fb \in fallbacks :
                               last' = PipeEvent(call,
                                   Pipe(adapter, valves, headers, pipelines, call, answer, fb))
    /\ UNCHANGED <<adapter, env, valves, headers, pipelines, vendor>>

ChangeAnyAnswer == VendorChange(CatalogAnswers(adapter))

NextCatalog ==
    \/ SetValves
    \/ ChangeAnyAnswer
    \/ OnValvesUpdated
    \/ OnStartup
    \/ OnShutdown

SpecCatalog == InitCatalog /\ [][NextCatalog]_vars

-----------------------------------------------------------------------------
(* The request path: every model id and stream setting, one answer of each  *)
(* kind.                                                                    *)

InitListed ==
    \E a \in Adapters : \E e \in PlainEnvs(a) : Construct(a, e, Listing(a))

RequestCalls ==
    {Call(Hi, id, OneTurn, Body(hm, OneTurn, st, NoParams, {})) :
        id \in ModelIds, hm \in BOOLEAN, st \in Streams}

PipeRequest == PipeCall(RequestCalls, FewAnswers, FewFallbacks)

Next ==
    \/ SetValves
    \/ OnValvesUpdated
    \/ OnStartup
    \/ OnShutdown
    \/ PipeRequest

Spec == InitListed /\ [][Next]_vars

-----------------------------------------------------------------------------
(* Vendor failures: every answer to the chat POST and to the alternate POST. *)

FailureCalls ==
    {Call(Hi, id, OneTurn, Body(TRUE, OneTurn, st, ps, {"user", "chat_id"})) :
        id \in {<<"m">>, <<"p", ".", "@cf/", "m">>}, st \in {"absent", "false"},
        ps \in {NoParams, SomeParams}}

PipeFailure == PipeCall(FailureCalls, ErrorAnswers, FallbackAnswers)

NextErrors ==
    \/ SetValves
    \/ OnValvesUpdated
    \/ PipeFailure

SpecErrors == InitListed /\ [][NextErrors]_vars

-----------------------------------------------------------------------------
(* Messages: every messages sequence of up to MaxMsgs entries.              *)

MessageLists == SeqsUpTo(MsgPool, MaxMsgs)

MessageCalls ==
    {Call(um, <<"p", ".", "m">>, ms, Body(TRUE, ms, "false", ps, {"user", "chat_id"})) :
        um \in {<<>>, Hi}, ms \in MessageLists, ps \in {NoParams, SomeParams}}

MessageAnswers ==
    { PostAnswer("connection", 0, NoPostBody),
      PostAnswer("http", 500, PostBody("dict", JsonText, "msg", "obj_msg", NoDoc)),
      Ok(SimpleDoc) }

PipeMessages == PipeCall(MessageCalls, MessageAnswers, FewFallbacks)

NextMessages ==
    \/ SetValves
    \/ OnValvesUpdated
    \/ PipeMessages

SpecMessages == InitListed /\ [][NextMessages]_vars

-----------------------------------------------------------------------------
(* Documents: every 200 answer with up to MaxCitations citations and up to  *)
(* MaxChoices choices.                                                      *)

CitationPool == {Citation("https://a.example", "A"), Citation("https://b.example", "B")}
ChoicePool == {Answer0, Answer1}

Docs ==
    {Doc(TRUE, hc, cs, ch) :
        hc \in BOOLEAN, cs \in SeqsUpTo(CitationPool, MaxCitations),
        ch \in SeqsUpTo(ChoicePool, MaxChoices)}
    \cup {Doc(FALSE, FALSE, <<>>, <<Answer0>>)}

DocAnswers == {Ok(d) : d \in Docs} \cup {OkNotJson}

DocCalls ==
    {Call(Hi, <<"m">>, OneTurn, Body(TRUE, OneTurn, st, NoParams, {})) : st \in Streams}

PipeDocument == PipeCall(DocCalls, DocAnswers, FewFallbacks)

NextDocs ==
    \/ SetValves
    \/ PipeDocument

SpecDocs == InitListed /\ [][NextDocs]_vars

-----------------------------------------------------------------------------
(* Message sources: the messages argument and body["messages"] are drawn   *)
(* independently, each a sequence of up to MaxMsgs turns.                   *)

TurnPool == {UserHi, Msg(<<"assistant">>, <<"hello">>)}

SourceCalls ==
    {Call(um, <<"m">>, ms, Body(hm, bm, "false", NoParams, {})) :
        um \in {<<>>, Hi}, ms \in SeqsUpTo(TurnPool, MaxMsgs),
        bm \in SeqsUpTo(TurnPool, MaxMsgs), hm \in BOOLEAN}

PipeSources == PipeCall(SourceCalls, {Ok(SimpleDoc)}, FewFallbacks)

NextSources ==
    \/ SetValves
    \/ OnValvesUpdated
    \/ PipeSources

SpecSources == InitListed /\ [][NextSources]_vars

-----------------------------------------------------------------------------
(* Perplexity's rebuild of the messages: every messages sequence of up to   *)
(* MaxMsgs entries, with and without user_message.                          *)

InitPerplexity == \E e \in PlainEnvs("perplexity") : Construct("perplexity", e, Listing("perplexity"))

RebuildCalls ==
    {Call(um, <<"m">>, ms, Body(TRUE, ms, "false", NoParams, {})) :
        um \in {<<>>, Hi}, ms \in MessageLists}

PipeRebuild == PipeCall(RebuildCalls, {Ok(SimpleDoc)}, FewFallbacks)

NextRebuild ==
    \/ SetValves
    \/ PipeRebuild

SpecRebuild == InitPerplexity /\ [][NextRebuild]_vars

-----------------------------------------------------------------------------
(* Properties.                                                              *)

IsPipe == last.op = "pipe"
IsRefresh == last.op \in RefreshOps
Posted == IsPipe /\ last.sent # <<>>

\* the POST got an HTTP answer with a status other than 200
FailedPost ==
    Posted /\ last.got[1].kind = "http" /\ last.got[1].status # 200

\* Cloudflare's alternate endpoint was tried and answered 200
AlternateSucceeded ==
    Len(last.got) = 2 /\ last.got[2].kind = "http" /\ last.got[2].status = 200

\* the body carries an error field the adapter is said to recognize
Recognizable(a, body) ==
    /\ body.fmt = "dict"
    /\ IF a = "cloudflare"
       THEN body.errors = "msg"
            \/ (body.errors \in {"absent", "empty"} /\ body.error # "absent")
       ELSE body.error = "obj_msg"

\* the vendor's message in such a body
VendorMessage(a, body) ==
    IF a = "cloudflare" /\ body.errors = "msg" THEN ErrorsMessage
    ELSE IF body.error = "obj_msg" THEN ErrorMessage
    ELSE IF body.error = "str" THEN ErrorString
    ELSE ErrorObject

\* C1: whenever the chat POST is answered with a non-200 status and a JSON
\* body carrying a recognizable vendor error field, pipe returns a string
\* that contains the status code and the vendor's message, for every model
\* id that reaches the POST (an answer of 200 from Cloudflare's alternate
\* endpoint, which replaces the error, set aside).
C1_ErrorNamesStatusAndMessage ==
    (FailedPost /\ Recognizable(adapter, last.got[1].body) /\ ~AlternateSucceeded)
    => /\ last.result.kind = "string"
       /\ Contains(last.result.text, Str(last.got[1].status))
       /\ IsSubstr(VendorMessage(adapter, last.got[1].body), last.result.text)

\* no API key in the environment and none stored in the valves by the host
\* (for Cloudflare no account id either)
NoCredentials ==
    /\ env.key = Unset
    /\ env.account = Unset
    /\ valves.key # Key1
    /\ valves.account = NoKey

\* C2: with no credentials configured the catalog resolver returns the
\* adapter's non-empty fixed fallback sequence, pipe returns a string that
\* begins with "Error:", and neither sends an HTTP request.
C2_NoCredentialsNoNetwork ==
    NoCredentials =>
        /\ IsRefresh => (pipelines = Fallback(adapter) /\ pipelines # <<>>
                         /\ last.sent = <<>>)
        /\ IsPipe => (last.result.kind = "string" /\ last.result.text # <<>>
                      /\ Head(last.result.text) = "Error:" /\ last.sent = <<>>)

\* the answer the last refresh got to its GET
Fetched == last.got[1]
Refetched == IsRefresh /\ last.sent # <<>>

\* kinds of failure of a catalog fetch
FetchException == Refetched /\ Fetched.kind = "exception"
FetchStatus == Refetched /\ Fetched.kind = "http" /\ Fetched.status # 200
FetchOk == Refetched /\ Fetched.kind = "http" /\ Fetched.status = 200
FetchNotJson == FetchOk /\ Fetched.fmt = "badjson"
FetchNotObject == FetchOk /\ Fetched.fmt = "notdict"
FetchWrongShape ==
    /\ FetchOk
    /\ Fetched.fmt = "dict"
    /\ (~Fetched.hasData \/ (adapter = "cloudflare" /\ ~Fetched.success))
FetchOddEntry ==
    /\ FetchOk /\ Fetched.fmt = "dict" /\ ~FetchWrongShape
    /\ \E i \in 1..Len(Fetched.entries) : ~Fetched.entries[i].isdict
FetchWellFormed ==
    FetchOk /\ Fetched.fmt = "dict" /\ ~FetchWrongShape /\ ~FetchOddEntry
\* a well-formed answer in which no entry passes the adapter's filter
FetchNothingKept ==
    /\ FetchWellFormed
    /\ \A i \in 1..Len(Fetched.entries) : ~Keeps(adapter, Fetched.entries[i])
MissingCredentials == IsRefresh /\ last.sent = <<>>

C4_PipeNeverRaises ==
    IsPipe => last.result.kind \in {"string", "stream", "object"}

\* name is the text of id after its last ".", or id itself without a "."
IsTextAfterLastDot(name, id) ==
    IF \A i \in 1..Len(id) : id[i] # "." THEN name = id
    ELSE \E i \in 1..Len(id) :
            /\ id[i] = "."
            /\ \A j \in (i + 1)..Len(id) : id[j] # "."
            /\ name = SubSeq(id, i + 1, Len(id))

\* name is the text of id after its first ".", or id itself without a "."
IsTextAfterFirstDot(name, id) ==
    IF \A i \in 1..Len(id) : id[i] # "." THEN name = id
    ELSE \E i \in 1..Len(id) :
            /\ id[i] = "."
            /\ \A j \in 1..(i - 1) : id[j] # "."
            /\ name = SubSeq(id, i + 1, Len(id))

\* the text of url after "/ai/run/"
RunPath(url) ==
    LET i == CHOOSE k \in 1..Len(url) : url[k] = "/ai/run/"
    IN  SubSeq(url, i + 1, Len(url))

\* the model the first request asks for: the payload's model field, or for
\* Cloudflare's run endpoint the URL path behind the @cf/ marker
RequestedModel ==
    IF last.sent[1].payload.model # Missing THEN last.sent[1].payload.model
    ELSE <<"@cf/">> \o RunPath(last.sent[1].url)

\* Cloudflare rejected the model: the name it looked up, from its message
RejectedModel == SubSeq(last.result.text, 3, Len(last.result.text) - 1)
Rejected ==
    /\ IsPipe /\ adapter = "cloudflare" /\ last.result.kind = "string"
    /\ Len(last.result.text) >= 3 /\ last.result.text[2] = " Model '"

\* C5 as stated: in every adapter the vendor model name is the text after
\* the last "." of model_id, or model_id itself when it has no ".".
C5_NameAfterLastDot ==
    /\ Posted => IsTextAfterLastDot(RequestedModel, last.call.model_id)
    /\ Rejected => IsTextAfterLastDot(RejectedModel, last.call.model_id)

\* C5 (amended): Grok and Perplexity use the text after the last "." of
\* model_id; Cloudflare uses the text after the first "." (in the catalog
\* lookup, the payload and the URL path); a model_id without "." is used
\* unchanged.
C5_NameAfterDot ==
    /\ Posted =>
          IF adapter = "cloudflare"
          THEN IsTextAfterFirstDot(RequestedModel, last.call.model_id)
          ELSE IsTextAfterLastDot(RequestedModel, last.call.model_id)
    /\ Rejected => IsTextAfterFirstDot(RejectedModel, last.call.model_id)

DotCount(s) == Cardinality({i \in 1..Len(s) : s[i] = "."})

\* Cloudflare posted for a model id with two or more "."
C5_Witness ==
    Posted /\ adapter = "cloudflare" /\ DotCount(last.call.model_id) >= 2

\* the first POST went to Cloudflare's run endpoint
RunEndpoint ==
    Posted /\ adapter = "cloudflare" /\ Contains(last.sent[1].url, "/ai/run/")

\* the 200 answer of the alternate endpoint can be handed to the host: as
\* lines, or as the mapping parsed from its JSON body
AlternateUsable ==
    AlternateSucceeded
    /\ (last.sent[2].payload.stream \/ last.got[2].body.fmt # "text")

FinalAnswer == last.got[Len(last.got)]
Succeeded ==
    Posted /\ FinalAnswer.kind = "http" /\ FinalAnswer.status = 200

\* C7: a body without a stream key is handled as streaming end to end: the
\* payload carries stream: true and a 200 answer is returned as the raw
\* line stream; and the shape of a successful result always agrees with the
\* stream value of the payload.
C7_StreamByDefault ==
    Succeeded =>
        /\ last.call.body.stream = "absent"
           => (last.sent[1].payload.stream /\ last.result.kind = "stream")
        /\ last.result.kind = "stream" => last.sent[1].payload.stream
        /\ last.result.kind = "object" => ~last.sent[1].payload.stream

AnchorOpen == "<a href=\""
SourcesHeader == "<br><br><b>Sources:</b><br>"

\* the indices of s that satisfy Test, ascending
Indices(s, Test(_)) == SelectSeq([i \in 1..Len(s) |-> i], Test)

\* the (url, title) pairs of the anchors in a rendered text, in order
LinksOf(text) ==
    LET at == Indices(text, LAMBDA i : text[i] = AnchorOpen)
    IN  [k \in 1..Len(at) |-> <<text[at[k] + 1], text[at[k] + 3]>>]

\* Perplexity, not streaming, was answered 200 with a chat completion
\* document (its id, model, created, usage and object fields and at least
\* one choice present)
PerplexityDocument ==
    /\ Succeeded /\ adapter = "perplexity"
    /\ last.call.body.stream # "true"
    /\ FinalAnswer.body.fmt = "dict"
    /\ FinalAnswer.body.doc.meta
    /\ FinalAnswer.body.doc.choices # <<>>

\* C8: for Perplexity in non-streaming mode, with a non-empty citations
\* array the returned content is the vendor's content followed by a Sources
\* block with exactly one anchor per citation, in the order of the array;
\* without citations, or with an empty array, it is the vendor's content.
C8_SourcesInOrder ==
    PerplexityDocument =>
        LET doc == FinalAnswer.body.doc
            given == doc.choices[1].content
            out == IF last.result.kind = "object"
                   THEN last.result.doc.choices[1].content ELSE <<>>
            block == SubSeq(out, Len(given) + 1, Len(out))
        IN  /\ last.result.kind = "object"
            /\ Len(out) >= Len(given)
            /\ SubSeq(out, 1, Len(given)) = given
            /\ IF doc.hasCitations /\ doc.citations # <<>>
               THEN /\ block # <<>>
                    /\ Head(block) = SourcesHeader
                    /\ Cardinality({i \in 1..Len(block) : block[i] = SourcesHeader}) = 1
                    /\ LinksOf(block)
                         = [i \in 1..Len(doc.citations) |->
                              <<doc.citations[i].url, doc.citations[i].title>>]
               ELSE block = <<>>

\* two different citations were rendered
C8_Witness ==
    /\ PerplexityDocument
    /\ Len(FinalAnswer.body.doc.citations) = 2
    /\ FinalAnswer.body.doc.citations[1] # FinalAnswer.body.doc.citations[2]
    /\ last.result.kind = "object"

SameSortKey(i, j) ==
    IF adapter = "grok" THEN pipelines[i].id = pipelines[j].id
    ELSE pipelines[i].name = pipelines[j].name

DistinctIds(s) == \A i, j \in 1..Len(s) : i # j => s[i].id # s[j].id

\* C10 as stated: no two descriptors of the catalog have the same id.
C10_CatalogHasNoDuplicateIds == DistinctIds(pipelines)

\* the ids the vendor listed, an absent id read as the empty string
ListedIds == [i \in 1..Len(Fetched.entries) |-> [id |-> Get(Fetched.entries[i].id, <<>>)]]

\* the catalog was built from the entries of a well-formed answer
BuiltFromList == FetchWellFormed /\ ~FetchNothingKept

\* C10 (amended): the catalog is not deduplicated: it holds one descriptor
\* for each listed entry that passes the adapter's filter, so its ids are
\* pairwise distinct whenever the ids the vendor listed are; the fallback
\* catalogs have pairwise distinct ids.
C10_OneDescriptorPerKeptEntry ==
    IsRefresh =>
        IF BuiltFromList
        THEN /\ Len(pipelines)
                  = Cardinality({i \in 1..Len(Fetched.entries) :
                                    Keeps(adapter, Fetched.entries[i])})
             /\ DistinctIds(ListedIds) => DistinctIds(pipelines)
        ELSE DistinctIds(pipelines)

\* a refresh built a catalog of two descriptors with different ids
C10_Witness ==
    /\ last.op = "on_valves_updated" /\ BuiltFromList
    /\ Len(pipelines) = 2 /\ DistinctIds(pipelines)

\* the ids of the catalog the adapter holds
CatalogIds == {pipelines[i].id : i \in 1..Len(pipelines)}

\* some id of the catalog is the text of the call's model_id after its first
\* "." (or the whole model_id when it has no ".")
NameInCatalog == \E id \in CatalogIds : IsTextAfterFirstDot(id, last.call.model_id)

\* C11: Cloudflare sends a chat POST only for a model name that is the id of
\* an entry of the catalog of the most recent refresh; for any other model
\* name pipe returns an "Error:" string and sends nothing.
C11_PostOnlyForListedModel ==
    (IsPipe /\ adapter = "cloudflare") =>
        /\ Posted => RequestedModel \in CatalogIds
        /\ ~NameInCatalog =>
              /\ last.sent = <<>>
              /\ last.result.kind = "string"
              /\ last.result.text # <<>> /\ Head(last.result.text) = "Error:"

\* Cloudflare posted for a model of the fallback catalog, which a refresh
\* put in the place of the vendor's list
C11_Witness ==
    /\ Posted /\ adapter = "cloudflare"
    /\ env.key = Key1 /\ pipelines = CloudflareFallback
    /\ RequestedModel = CloudflareFallback[2].id

\* the messages of the first request sent
SentMessages == last.sent[1].payload.messages

\* the turns of a sequence of messages: its messages other than system ones
Turns(ms) == SelectSeq(ms, LAMBDA m : m.role # <<"system">>)

\* the turns sent are the turns of src, or those followed by the current
\* user message
DerivedFrom(src) ==
    \/ Turns(SentMessages) = Turns(src)
    \/ /\ last.call.user_message # <<>>
       /\ Turns(SentMessages)
            = Append(Turns(src), Msg(<<"user">>, last.call.user_message))

\* the host body holds a messages sequence that differs from the argument
SourcesDiffer ==
    /\ Posted
    /\ last.call.body.hasMessages
    /\ last.call.body.messages # last.call.messages

\* C12 as stated: in every adapter the messages sent are derived from
\* body["messages"] whenever the body holds a messages sequence that differs
\* from the messages argument.
C12_MessagesFromBody == SourcesDiffer => DerivedFrom(last.call.body.messages)

\* C12 (amended): Cloudflare and Grok send body["messages"] and never read
\* the messages argument; Perplexity builds the messages it sends from the
\* messages argument and user_message and never reads body["messages"].
C12_MessageSource ==
    Posted =>
        IF adapter = "perplexity"
        THEN DerivedFrom(last.call.messages)
        ELSE /\ last.call.body.hasMessages
             /\ SentMessages = last.call.body.messages

\* Perplexity posted for a call whose body messages and argument messages
\* are different non-empty sequences
C12_Witness ==
    /\ SourcesDiffer /\ adapter = "perplexity"
    /\ last.call.messages # <<>> /\ last.call.body.messages # <<>>
    /\ ~DerivedFrom(last.call.body.messages)

\* C13: no payload sent to the vendor has the keys user, chat_id or title;
\* each of temperature, top_p, max_tokens, presence_penalty and
\* frequency_penalty is in the payload exactly when the host body has it
\* with a value that is not null, and then with that value; a Perplexity
\* payload carries return_citations: true and return_images: true.
C13_PayloadShape ==
    Posted =>
        \A n \in 1..Len(last.sent) :
            LET payload == last.sent[n].payload
                body == last.call.body
            IN  /\ payload.other \cap {"user", "chat_id", "title"} = {}
                /\ \A param \in {"temperature", "top_p", "max_tokens",
                                 "presence_penalty", "frequency_penalty"} :
                      payload.params[param]
                        = IF body.params[param] \notin {Missing, Null}
                          THEN body.params[param] ELSE Missing
                /\ adapter = "perplexity"
                      => (payload.return_citations /\ payload.return_images)

\* a request was sent for a body with a parameter set, a parameter that is
\* null and host-only keys
C13_Witness ==
    /\ Posted
    /\ last.call.body.params["temperature"] \notin {Missing, Null}
    /\ last.call.body.params["top_p"] = Null
    /\ "user" \in last.call.body.extra

\* the system messages of the messages argument, in order
SystemMessages == SelectSeq(last.call.messages, LAMBDA m : m.role = <<"system">>)

\* a prior turn as it is sent: an absent role reads "user", an absent
\* content reads ""
AsSent(m) ==
    [role |-> IF m.role = Missing THEN <<"user">> ELSE m.role,
     content |-> IF m.content = Missing THEN <<>> ELSE m.content]

\* the last prior turn is a user message that holds user_message already
AlreadyLast ==
    LET prior == Turns(last.call.messages)
    IN  /\ prior # <<>>
        /\ prior[Len(prior)].role = <<"user">>
        /\ prior[Len(prior)].content = last.call.user_message

\* C14: the sequence Perplexity sends starts with a system message (the
\* content of the host's system message if there is one, the default prompt
\* otherwise), continues with the prior turns that are not system messages,
\* in order, and ends with one user message holding user_message exactly
\* when user_message is not empty and the last prior turn is not a user
\* message with that content already; it is never empty.
C14_PerplexityRebuild ==
    (Posted /\ adapter = "perplexity") =>
        LET sent == SentMessages
            prior == Turns(last.call.messages)
            appended == last.call.user_message # <<>> /\ ~AlreadyLast
        IN  /\ sent # <<>>
            /\ sent[1].role = <<"system">>
            /\ sent[1].content
                 = IF SystemMessages # <<>> THEN SystemMessages[1].content
                   ELSE <<"You are a helpful assistant.">>
            /\ Len(sent) = 1 + Len(prior) + (IF appended THEN 1 ELSE 0)
            /\ \A i \in 1..Len(prior) : sent[1 + i] = AsSent(prior[i])
            /\ appended => sent[Len(sent)] = Msg(<<"user">>, last.call.user_message)

\* Perplexity sent the host's system prompt and a prior user turn that holds
\* user_message already, and appended nothing
C14_Witness ==
    /\ Posted /\ adapter = "perplexity"
    /\ SystemMessages # <<>> /\ AlreadyLast
    /\ last.call.user_message # <<>>
    /\ Len(SentMessages) = 2

\* Cloudflare or Grok was called with a body that holds messages
CopiesMessages ==
    /\ IsPipe /\ adapter \in {"cloudflare", "grok"}
    /\ last.call.body.hasMessages /\ last.call.body.messages # <<>>

\* C15: for Cloudflare and Grok the messages of the payload are exactly the
\* messages of the host body (entries without role or content included), and
\* the host body is the same after pipe returns as before the call.
C15_VerbatimCopy ==
    CopiesMessages =>
        /\ Posted => SentMessages = last.call.body.messages
        /\ last.after = last.call.body

\* the catalog the resolver yields for the configuration and the vendor's
\* answer of the next state
ResolvedNow ==
    GetModels(adapter', valves', UpdateHeaders(adapter', valves'), vendor').models

\* C16: pipe, on_startup and on_shutdown leave the configuration and the
\* cached catalog unchanged; the catalog changes only on on_valves_updated
\* (after its construction), and on_valves_updated replaces the whole
\* catalog with the resolver's result for the configuration of that moment.
C16_CatalogLifecycle ==
    [][ /\ last'.op \in {"pipe", "on_startup", "on_shutdown"}
           => (valves' = valves /\ headers' = headers /\ pipelines' = pipelines)
        /\ pipelines' # pipelines => last'.op = "on_valves_updated"
        /\ last'.op = "on_valves_updated"
           => (valves' = valves /\ pipelines' = ResolvedNow) ]_vars

\* on_valves_updated put the fallback catalog in the place of the vendor's
\* list, and a pipe call followed
C16_Witness ==
    /\ IsPipe /\ env.key = Key1
    /\ valves.key = NoKey /\ pipelines = Fallback(adapter)
    /\ pipelines # Collect(adapter, ListedEntries(adapter))

\* Perplexity returned the mapping it rebuilt from a chat completion document
Normalized == PerplexityDocument /\ last.result.kind = "object"

\* s starts with prefix
StartsWith(s, prefix) ==
    Len(prefix) <= Len(s) /\ SubSeq(s, 1, Len(prefix)) = prefix

\* C17: every choice Perplexity rebuilds keeps its own index, finish_reason,
\* message role and message content and gains a delta of empty content; the
\* Sources block is appended to the content of the first choice only.
C17_ChoicesKeepOwnContent ==
    Normalized =>
        LET given == FinalAnswer.body.doc.choices
            rebuilt == last.result.doc.choices
        IN  /\ Len(rebuilt) = Len(given)
            /\ \A i \in 1..Len(given) :
                  /\ rebuilt[i].index = given[i].index
                  /\ rebuilt[i].finish_reason = given[i].finish_reason
                  /\ rebuilt[i].role = given[i].role
                  /\ rebuilt[i].delta.content = <<>>
                  /\ IF i = 1 THEN StartsWith(rebuilt[i].content, given[i].content)
                     ELSE rebuilt[i].content = given[i].content

\* C18: every HTTP request an adapter sends carries the API key that is
\* configured at the moment of the request, also when the key was changed
\* and on_valves_updated has not run since.
C18_RequestsCarryCurrentKey ==
    \A n \in 1..Len(last.sent) : last.sent[n].auth = valves.key

====
